---- MODULE Spec2Model ----
(***************************************************************************)
(* Model of jsonpath.go: EvaluateCheckHook parses a boolean expression     *)
(* "<path> <op> <path>", resolves both paths against a document and        *)
(* compares the two resolved reflect.Values.                               *)
(*                                                                         *)
(* Go strings are sequences of one-character strings.  The k8s jsonpath    *)
(* library is outside the repository; its two entry points (Parse and      *)
(* FindResults) are modelled by what the repository's code observes of     *)
(* them: whether Parse accepts a text, and what FindResults returns.       *)
(***************************************************************************)
EXTENDS Integers, Sequences, FiniteSets, TLC

VARIABLES pc, booleanExpression, jsonData, emptyParses,
          op, jsonPaths, operand, i, result, err,
          parseCalls, queryCalls, compareCalls, trace

vars == <<pc, booleanExpression, jsonData, emptyParses,
          op, jsonPaths, operand, i, result, err,
          parseCalls, queryCalls, compareCalls, trace>>

-----------------------------------------------------------------------------
(* Bounds *)

\* longest raw expression the parser is run on in SpecParse
MaxLen == 4

\* numbers in documents range over 0..MaxNum (integers) and 0..MaxNum in
\* halves (floats)
MaxNum == 3

-----------------------------------------------------------------------------
(* Strings *)

\* The characters of raw expressions.  "a" (and "b" in PathTexts below) is
\* ordinary path text, "#" is text the path grammar rejects, "@" is text
\* that parses but faults when evaluated, even against "{}".
Alphabet == {"a", "#", "@", " ", "=", "!", ">", "<"}

\* characters in byte order (the relative order of their ASCII codes)
AsciiOrder ==
    <<" ", "!", "#", ".", "0", "1", "2", "3", "4", "5", "6", "7", "8", "9",
      "<", "=", ">", "@", "[", "]", "a", "b", "e", "f", "i", "l", "m", "n",
      "p", "r", "s", "t", "u">>

Code(c) == CHOOSE k \in 1..Len(AsciiOrder) : AsciiOrder[k] = c

RECURSIVE StrLess(_, _)
\* Go's < on strings: bytewise lexicographic
StrLess(s, t) ==
    IF t = <<>> THEN FALSE
    ELSE IF s = <<>> THEN TRUE
    ELSE IF Head(s) # Head(t) THEN Code(Head(s)) < Code(Head(t))
    ELSE StrLess(Tail(s), Tail(t))

\* strings.Index: position of the first occurrence of sep in s, 0 if none
Index(s, sep) ==
    LET hits == {k \in 1..(Len(s) - Len(sep) + 1) :
                    SubSeq(s, k, k + Len(sep) - 1) = sep}
    IN IF hits = {} THEN 0 ELSE CHOOSE k \in hits : \A h \in hits : k <= h

RECURSIVE Split(_, _)
\* strings.Split for a non-empty separator
Split(s, sep) ==
    LET k == Index(s, sep)
    IN IF k = 0 THEN <<s>>
       ELSE <<SubSeq(s, 1, k - 1)>> \o Split(SubSeq(s, k + Len(sep), Len(s)), sep)

IsSpace(c) == c = " "

RECURSIVE TrimLeft(_)
TrimLeft(s) == IF s # <<>> /\ IsSpace(Head(s)) THEN TrimLeft(Tail(s)) ELSE s

RECURSIVE TrimRight(_)
TrimRight(s) ==
    IF s # <<>> /\ IsSpace(s[Len(s)]) THEN TrimRight(SubSeq(s, 1, Len(s) - 1)) ELSE s

\* strings.TrimSpace
TrimSpace(s) == TrimRight(TrimLeft(s))

trimLeadingTrailingWhiteSpace(paths) ==
    [k \in 1..Len(paths) |-> TrimSpace(paths[k])]

HasChar(s, c) == \E k \in 1..Len(s) : s[k] = c

RECURSIVE Decimal(_)
\* decimal digits of a natural number
Decimal(n) ==
    LET d == <<"0", "1", "2", "3", "4", "5", "6", "7", "8", "9">>[(n % 10) + 1]
    IN IF n < 10 THEN <<d>> ELSE Decimal(n \div 10) \o <<d>>

-----------------------------------------------------------------------------
(* Go values *)

\* A dynamic Go value (the content of an interface{}): its dynamic type and
\* payload.  A float64 is held in halves (num = 2 * value), so that 1.5 is
\* representable and the int -> float64 conversion is not the identity.
Dyn(type, str, num, bool) == [type |-> type, str |-> str, num |-> num, bool |-> bool]

StringD(s) == Dyn("string", s, 0, FALSE)
Float64D(h) == Dyn("float64", <<>>, h, FALSE)
IntD(n) == Dyn("int", <<>>, n, FALSE)
BoolD(b) == Dyn("bool", <<>>, 0, b)
NilD == Dyn("nil", <<>>, 0, FALSE)
MapD == Dyn("map", <<>>, 0, FALSE)

\* reflect.Kind of a dynamic type
KindOf(type) ==
    CASE type = "string" -> "String"
      [] type = "float64" -> "Float64"
      [] type = "int" -> "Int"
      [] type = "bool" -> "Bool"
      [] type = "map" -> "Map"
      [] OTHER -> "Invalid"

\* reflect.ValueOf(x)
ValueOf(x) == [kind |-> KindOf(x.type), dyn |-> x]

\* the zero reflect.Value{}: Kind() is Invalid
ZeroValue == [kind |-> "Invalid", dyn |-> NilD]

\* a reflect.Value of Kind Interface holding x (an element of a
\* map[string]interface{} or []interface{})
InterfaceValue(x) == [kind |-> "Interface", dyn |-> x]

\* float64(n) for an int n
ToFloat64(n) == 2 * n

\* fmt.Sprintf("%v", x)
Sprintf(x) ==
    CASE x.type = "string" -> x.str
      [] x.type = "float64" ->
           IF x.num % 2 = 0 THEN Decimal(x.num \div 2)
           ELSE Decimal(x.num \div 2) \o <<".", "5">>
      [] x.type = "int" -> Decimal(x.num)
      [] x.type = "bool" -> IF x.bool THEN <<"t", "r", "u", "e">>
                            ELSE <<"f", "a", "l", "s", "e">>
      [] x.type = "map" -> <<"m", "a", "p", "[", "]">>
      [] OTHER -> <<"<", "n", "i", "l", ">">>

StringSamples == {Decimal(n) : n \in 1..2} \cup {<<"1", "0">>, <<"t", "r", "u", "e">>}

WrappedSamples ==
    {StringD(<<"1">>), StringD(<<"2">>), Float64D(1), Float64D(2), IntD(1),
     BoolD(TRUE), NilD, MapD}

\* the reflect.Values a path can resolve to
Values ==
    {ValueOf(StringD(s)) : s \in StringSamples}
      \cup {ValueOf(Float64D(h)) : h \in 0..MaxNum}
      \cup {ValueOf(IntD(n)) : n \in 0..MaxNum}
      \cup {ValueOf(BoolD(b)) : b \in BOOLEAN}
      \cup {InterfaceValue(x) : x \in WrappedSamples}
      \cup {ValueOf(MapD), ZeroValue}

-----------------------------------------------------------------------------
(* Errors *)

\* An error is the chain of its messages, outermost first; each message
\* carries the text formatted into it.  nil is the empty chain.
Error(msg, text) == << [msg |-> msg, text |-> text] >>

nil == <<>>

\* fmt.Errorf("msg ...: %w", e)
Wrap(msg, text, e) == Error(msg, text) \o e

-----------------------------------------------------------------------------
(* The jsonpath library as QueryJsonPath and isValidJsonPathExpression see it *)

\* jp.Parse(text) returns no error
ParseOK(text) ==
    IF text = <<>> THEN emptyParses ELSE ~HasChar(text, "#")

\* a document: "{}" (the validator's probe), or a caller's document given
\* by what FindResults returns for each path asked of it
EmptyDoc == [probe |-> TRUE, at |-> <<>>]

Document(f) == [probe |-> FALSE, at |-> f]

Found(results) == [err |-> nil, results |-> results]

Fault == [err |-> Error("evaluation fault", <<>>), results |-> <<>>]

\* what FindResults can return for one path of a caller's document: a
\* fault, no result list, an empty result list, or one value
Outcomes == {Fault, Found(<<>>), Found(<< <<>> >>)} \cup {Found(<< <<v>> >>) : v \in Values}

\* jp.FindResults(data) after a successful Parse(text)
FindResults(data, text) ==
    IF data.probe
    THEN IF HasChar(text, "@") THEN Fault ELSE Found(<<>>)
    ELSE data.at[text]

QueryJsonPath(data, jsonPath) ==
    IF ~ParseOK(jsonPath)
    THEN [val |-> ZeroValue, err |-> Error("failed to get value invalid jsonpath", <<>>)]
    ELSE LET r == FindResults(data, jsonPath)
         IN IF r.err # nil
            THEN [val |-> ZeroValue,
                  err |-> Wrap("failed to get value from data using jsonpath", <<>>, r.err)]
            ELSE IF Len(r.results) = 0 \/ Len(r.results[1]) = 0
            THEN [val |-> ZeroValue, err |-> nil]
            ELSE [val |-> r.results[1][1], err |-> nil]

isValidJsonPathExpression(expr) ==
    IF ~ParseOK(expr) THEN FALSE
    ELSE IF QueryJsonPath(EmptyDoc, expr).err # nil THEN FALSE
    ELSE TRUE

-----------------------------------------------------------------------------
(* parseBooleanExpression *)

EQ == <<"=", "=">>
NE == <<"!", "=">>
GE == <<">", "=">>
GT == <<">">>
LE == <<"<", "=">>
LT == <<"<">>

\* a variant of operators that tries > and < before >= and <=
operatorsShortFirst == <<EQ, NE, GT, GE, LT, LE>>

operators == <<EQ, NE, GE, GT, LE, LT>>

RECURSIVE parseFrom(_, _)
\* the loop over operators, from the k-th on
parseFrom(expression, k) ==
    IF k > Len(operators)
    THEN [op |-> <<>>, jsonPaths |-> <<>>,
          err |-> Error("unable to parse boolean expression", expression)]
    ELSE LET exprs == Split(expression, operators[k])
             paths == trimLeadingTrailingWhiteSpace(exprs)
         IN IF Len(exprs) = 2
               /\ isValidJsonPathExpression(paths[1])
               /\ isValidJsonPathExpression(paths[2])
            THEN [op |-> operators[k], jsonPaths |-> paths, err |-> nil]
            ELSE parseFrom(expression, k + 1)

parseBooleanExpression(expression) == parseFrom(expression, 1)

-----------------------------------------------------------------------------
(* compare and its helpers *)

isKindString(kind) == kind = "String"

isKindFloat64(kind) == kind = "Float64"

isKindBool(kind) == kind = "Bool"

isUnsupportedKind(kind) == kind # "String" /\ kind # "Float64" /\ kind # "Bool"

isKindStringOrFloat64(kind) == isKindString(kind) \/ isKindFloat64(kind)

\* a (bool, error) return, with the helper that produced it and the branch
\* of that helper that returned
Return(res, e, callee, branch) ==
    [res |-> res, err |-> e, callee |-> callee, branch |-> branch]

compareBool(a, b, operator) ==
    CASE operator = EQ -> Return(a = b, nil, "compareBool", "==")
      [] operator = NE -> Return(a # b, nil, "compareBool", "!=")
      [] OTHER -> Return(FALSE, Error("unknown operator", operator),
                         "compareBool", "default")

\* not called by compare; the six-operator string comparison the file defines
compareString(a, b, operator) ==
    CASE operator = EQ -> Return(a = b, nil, "compareString", "==")
      [] operator = NE -> Return(a # b, nil, "compareString", "!=")
      [] operator = GE -> Return(~StrLess(a, b), nil, "compareString", ">=")
      [] operator = GT -> Return(StrLess(b, a), nil, "compareString", ">")
      [] operator = LE -> Return(~StrLess(b, a), nil, "compareString", "<=")
      [] operator = LT -> Return(StrLess(a, b), nil, "compareString", "<")
      [] OTHER -> Return(FALSE, Error("unknown operator", operator),
                         "compareString", "default")

compareValues(val1, val2, operator) ==
    LET unsupported == Return(FALSE, Error("unsupported type or operator", <<>>),
                              "compareValues", "unsupported")
        mismatched == Return(FALSE, Error("mismatched types", <<>>),
                             "compareValues", "mismatched")
    IN CASE val1.type = "float64" ->
              IF val2.type # "float64" THEN mismatched
              ELSE CASE operator = EQ -> Return(val1.num = val2.num, nil, "compareValues", "float64")
                     [] operator = NE -> Return(val1.num # val2.num, nil, "compareValues", "float64")
                     [] operator = LT -> Return(val1.num < val2.num, nil, "compareValues", "float64")
                     [] operator = GT -> Return(val1.num > val2.num, nil, "compareValues", "float64")
                     [] operator = LE -> Return(val1.num <= val2.num, nil, "compareValues", "float64")
                     [] operator = GE -> Return(val1.num >= val2.num, nil, "compareValues", "float64")
                     [] OTHER -> unsupported
         [] val1.type = "string" ->
              IF val2.type # "string" THEN mismatched
              ELSE CASE operator = EQ -> Return(val1.str = val2.str, nil, "compareValues", "string")
                     [] operator = NE -> Return(val1.str # val2.str, nil, "compareValues", "string")
                     [] OTHER -> unsupported
         [] val1.type = "bool" ->
              IF val2.type # "bool" THEN mismatched
              ELSE CASE operator = EQ -> Return(val1.bool = val2.bool, nil, "compareValues", "bool")
                     [] operator = NE -> Return(val1.bool # val2.bool, nil, "compareValues", "bool")
                     [] OTHER -> unsupported
         [] OTHER -> unsupported

\* a variant of widen that converts only a left-hand int
widenLeftOnly(a, b) ==
    LET a1 == IF a.kind = "Int" /\ b.kind = "Float64"
              THEN ValueOf(Float64D(ToFloat64(a.dyn.num))) ELSE a
    IN <<a1, b>>

\* lines 52-57: if one is int and the other float64, convert the int
widen(a, b) ==
    LET a1 == IF a.kind = "Int" /\ b.kind = "Float64"
              THEN ValueOf(Float64D(ToFloat64(a.dyn.num))) ELSE a
        b1 == IF a1.kind = "Float64" /\ b.kind = "Int"
              THEN ValueOf(Float64D(ToFloat64(b.dyn.num))) ELSE b
    IN <<a1, b1>>

\* a variant of stringify that unwraps the interface instead of printing it
stringifyUnwrap(v) ==
    IF v.kind = "Interface" THEN ValueOf(v.dyn) ELSE v

\* lines 60-65: a value of Kind Interface becomes the string "%v" prints
stringify(v) ==
    IF v.kind = "Interface" THEN ValueOf(StringD(Sprintf(v.dyn))) ELSE v

\* a variant of compareKinds with the supported-kind gate ahead of the
\* operator check
compareKindsGateFirst(a, b, operator) ==
    IF a.kind # b.kind
    THEN Return(FALSE, Error("operands of different kinds can't be compared", <<>>), "", "")
    ELSE IF isUnsupportedKind(a.kind) \/ isUnsupportedKind(b.kind)
    THEN Return(FALSE, Error("unsupported kind for comparison", <<>>), "", "")
    ELSE IF operator # EQ /\ operator # NE
            /\ (~isKindStringOrFloat64(a.kind) \/ ~isKindStringOrFloat64(b.kind))
    THEN Return(FALSE, Error("operands not supported for operator", operator), "", "")
    ELSE IF isKindBool(a.kind) /\ isKindBool(b.kind)
    THEN compareBool(a.dyn.bool, b.dyn.bool, operator)
    ELSE compareValues(a.dyn, b.dyn, operator)

\* a variant of compareKinds without the operator check
compareKindsNoOperatorCheck(a, b, operator) ==
    IF a.kind # b.kind
    THEN Return(FALSE, Error("operands of different kinds can't be compared", <<>>), "", "")
    ELSE IF isUnsupportedKind(a.kind) \/ isUnsupportedKind(b.kind)
    THEN Return(FALSE, Error("unsupported kind for comparison", <<>>), "", "")
    ELSE IF isKindBool(a.kind) /\ isKindBool(b.kind)
    THEN compareBool(a.dyn.bool, b.dyn.bool, operator)
    ELSE compareValues(a.dyn, b.dyn, operator)

\* lines 67-94, on the operands as converted above
compareKinds(a, b, operator) ==
    IF a.kind # b.kind
    THEN Return(FALSE, Error("operands of different kinds can't be compared", <<>>), "", "")
    ELSE IF operator # EQ /\ operator # NE
            /\ (~isKindStringOrFloat64(a.kind) \/ ~isKindStringOrFloat64(b.kind))
    THEN Return(FALSE, Error("operands not supported for operator", operator), "", "")
    ELSE IF isUnsupportedKind(a.kind) \/ isUnsupportedKind(b.kind)
    THEN Return(FALSE, Error("unsupported kind for comparison", <<>>), "", "")
    ELSE IF isKindBool(a.kind) /\ isKindBool(b.kind)
    THEN compareBool(a.dyn.bool, b.dyn.bool, operator)
    ELSE compareValues(a.dyn, b.dyn, operator)

compare(a, b, operator) ==
    LET w == widen(a, b)
    IN compareKinds(stringify(w[1]), stringify(w[2]), operator)

-----------------------------------------------------------------------------
(* EvaluateCheckHook *)

NoTrace == [callee |-> "", branch |-> ""]

\* line 12-15
Parse ==
    /\ pc = "parse"
    /\ LET p == parseBooleanExpression(booleanExpression)
       IN /\ op' = p.op
          /\ jsonPaths' = p.jsonPaths
          /\ IF p.err # nil
             THEN /\ pc' = "done"
                  /\ result' = FALSE
                  /\ err' = Wrap("failed to parse boolean expression", <<>>, p.err)
             ELSE /\ pc' = "resolve"
                  /\ UNCHANGED <<result, err>>
    /\ parseCalls' = parseCalls + 1
    /\ UNCHANGED <<booleanExpression, jsonData, emptyParses, operand, i,
                   queryCalls, compareCalls, trace>>

\* a variant of Resolve that goes on to the next path after an error
ResolveNoReturn ==
    /\ pc = "resolve"
    /\ i <= Len(jsonPaths)
    /\ LET q == QueryJsonPath(jsonData, jsonPaths[i])
       IN /\ operand' = [operand EXCEPT ![i] = q.val]
          /\ IF q.err # nil
             THEN /\ result' = FALSE
                  /\ err' = Wrap("failed to get value for", jsonPaths[i], q.err)
             ELSE UNCHANGED <<result, err>>
          /\ pc' = IF i = Len(jsonPaths) THEN "compare" ELSE "resolve"
          /\ i' = i + 1
    /\ queryCalls' = queryCalls + 1
    /\ UNCHANGED <<booleanExpression, jsonData, emptyParses, op, jsonPaths,
                   parseCalls, compareCalls, trace>>

\* lines 18-23: one iteration of the loop over jsonPaths
Resolve ==
    /\ pc = "resolve"
    /\ i <= Len(jsonPaths)
    /\ LET q == QueryJsonPath(jsonData, jsonPaths[i])
       IN /\ operand' = [operand EXCEPT ![i] = q.val]
          /\ IF q.err # nil
             THEN /\ pc' = "done"
                  /\ result' = FALSE
                  /\ err' = Wrap("failed to get value for", jsonPaths[i], q.err)
                  /\ i' = i
             ELSE /\ pc' = IF i = Len(jsonPaths) THEN "compare" ELSE "resolve"
                  /\ i' = i + 1
                  /\ UNCHANGED <<result, err>>
    /\ queryCalls' = queryCalls + 1
    /\ UNCHANGED <<booleanExpression, jsonData, emptyParses, op, jsonPaths,
                   parseCalls, compareCalls, trace>>

\* line 25
Compare ==
    /\ pc = "compare"
    /\ LET r == compare(operand[1], operand[2], op)
       IN /\ result' = r.res
          /\ err' = r.err
          /\ trace' = [callee |-> r.callee, branch |-> r.branch]
    /\ compareCalls' = compareCalls + 1
    /\ pc' = "done"
    /\ UNCHANGED <<booleanExpression, jsonData, emptyParses, op, jsonPaths,
                   operand, i, parseCalls, queryCalls>>

\* the state of a call before its first statement
Entry ==
    /\ op = <<>>
    /\ jsonPaths = <<>>
    /\ operand = <<ZeroValue, ZeroValue>>
    /\ i = 1
    /\ result = FALSE
    /\ err = nil
    /\ parseCalls = 0
    /\ queryCalls = 0
    /\ compareCalls = 0
    /\ trace = NoTrace

\* path texts and the text between them, for the expressions of Spec
PathTexts == {<<>>, <<"a">>, <<"b">>, <<"#">>, <<"@">>}

Middles ==
    {operators[k] : k \in 1..Len(operators)}
      \cup {<<" ", "=", "=", " ">>, <<>>, <<"=">>}

Expressions == {l \o m \o r : l \in PathTexts, m \in Middles, r \in PathTexts}

\* the paths an expression asks a document for
PathsOf(expression) ==
    LET p == parseBooleanExpression(expression)
    IN {p.jsonPaths[k] : k \in 1..Len(p.jsonPaths)}

Init ==
    /\ pc = "parse"
    /\ emptyParses \in BOOLEAN
    /\ booleanExpression \in Expressions
    /\ jsonData \in {Document(f) : f \in [PathsOf(booleanExpression) -> Outcomes]}
    /\ Entry

Next == Parse \/ Resolve \/ Compare

Spec == Init /\ [][Next]_vars

\* parseBooleanExpression on every string up to MaxLen
Strings == UNION {[1..n -> Alphabet] : n \in 0..MaxLen}

InitParse ==
    /\ pc = "parse"
    /\ emptyParses \in BOOLEAN
    /\ booleanExpression \in Strings
    /\ jsonData = Document(<<>>)
    /\ Entry

NextParse == Parse

SpecParse == InitParse /\ [][NextParse]_vars

\* compare on every pair of values and every operator
InitCompare ==
    /\ pc = "compare"
    /\ emptyParses = TRUE
    /\ booleanExpression = <<>>
    /\ jsonData = Document(<<>>)
    /\ op \in {operators[k] : k \in 1..Len(operators)}
    /\ jsonPaths = <<>>
    /\ operand \in {<<a, b>> : a \in Values, b \in Values}
    /\ i = 1
    /\ result = FALSE
    /\ err = nil
    /\ parseCalls = 0
    /\ queryCalls = 0
    /\ compareCalls = 0
    /\ trace = NoTrace

NextCompare == Compare

SpecCompare == InitCompare /\ [][NextCompare]_vars

-----------------------------------------------------------------------------
(* Claims about parseBooleanExpression (SpecParse) *)

\* the priority order the specification documents
Priority == <<EQ, NE, GE, GT, LE, LT>>

\* splitting at symbol gives exactly two pieces, both valid after trimming
Accepts(expression, symbol) ==
    LET pieces == Split(expression, symbol)
    IN /\ Len(pieces) = 2
       /\ isValidJsonPathExpression(TrimSpace(pieces[1]))
       /\ isValidJsonPathExpression(TrimSpace(pieces[2]))

\* a non-empty path of ordinary characters only
PlainPath(s) == s # <<>> /\ \A k \in 1..Len(s) : s[k] = "a"

\* expression is <plain path> symbol <plain path>, with optional blanks
\* around the symbol
Formed(expression, symbol) ==
    \E k \in 1..(Len(expression) - Len(symbol) + 1) :
        /\ SubSeq(expression, k, k + Len(symbol) - 1) = symbol
        /\ PlainPath(TrimSpace(SubSeq(expression, 1, k - 1)))
        /\ PlainPath(TrimSpace(SubSeq(expression, k + Len(symbol), Len(expression))))

Parsed == pc # "parse" /\ parseCalls = 1

\* C1: the parser returns the first symbol, in the order ==, !=, >=, >, <=, <,
\* whose split gives two valid trimmed pieces, with those pieces as operands;
\* "<plain> <op> <plain>" parses to exactly <op> for each of the six symbols.
C1_FirstOperatorWins ==
    Parsed =>
        /\ \A k \in 1..Len(Priority) :
              (/\ Accepts(booleanExpression, Priority[k])
               /\ \A j \in 1..(k - 1) : ~Accepts(booleanExpression, Priority[j]))
              => /\ err = nil
                 /\ op = Priority[k]
                 /\ jsonPaths = trimLeadingTrailingWhiteSpace(
                                    Split(booleanExpression, Priority[k]))
        /\ \A k \in 1..Len(Priority) :
              Formed(booleanExpression, Priority[k])
              => /\ err = nil
                 /\ op = Priority[k]
                 /\ PlainPath(jsonPaths[1]) /\ PlainPath(jsonPaths[2])

\* "a>=a": the split at > is valid too ("a" and "=a"), and >= is returned
C1_Witness ==
    /\ Parsed
    /\ Formed(booleanExpression, GE)
    /\ Accepts(booleanExpression, GT)
    /\ op = GE
    /\ jsonPaths = << <<"a">>, <<"a">> >>

\* C7: a successful parse never has an empty operand, and an expression
\* with an empty side of its operator fails with the syntax error, an empty
\* operator and an empty path list.
C7_NoEmptyOperand ==
    Parsed =>
        /\ err = nil => jsonPaths[1] # <<>> /\ jsonPaths[2] # <<>>
        /\ (\E k \in 1..Len(Priority) :
               LET pieces == Split(booleanExpression, Priority[k])
               IN /\ Len(pieces) = 2
                  /\ (TrimSpace(pieces[1]) = <<>> \/ TrimSpace(pieces[2]) = <<>>)
                  /\ \A j \in 1..Len(Priority) :
                        j # k => Len(Split(booleanExpression, Priority[j])) # 2)
           => /\ err = Wrap("failed to parse boolean expression", <<>>,
                            Error("unable to parse boolean expression", booleanExpression))
              /\ op = <<>>
              /\ jsonPaths = <<>>

-----------------------------------------------------------------------------
(* Claims about compare (SpecCompare) *)

Compared == pc = "done" /\ compareCalls = 1

Ordering == {GE, GT, LE, LT}

\* the kind of operand v, opposite operand w, after the two conversions
CoercedKind(v, w) ==
    IF v.kind = "Interface" THEN "String"
    ELSE IF v.kind = "Int" /\ w.kind = "Float64" THEN "Float64"
    ELSE v.kind

Failed(msg) == err # nil /\ err[1].msg = msg

\* C2: two String operands (Interface operands included) compare under all
\* six operators by lexicographic order, without error.
C2_StringAllSix ==
    (/\ Compared
     /\ CoercedKind(operand[1], operand[2]) = "String"
     /\ CoercedKind(operand[2], operand[1]) = "String")
    => LET s == IF operand[1].kind = "Interface" THEN Sprintf(operand[1].dyn)
                ELSE operand[1].dyn.str
           t == IF operand[2].kind = "Interface" THEN Sprintf(operand[2].dyn)
                ELSE operand[2].dyn.str
       IN /\ err = nil
          /\ result = compareString(s, t, op).res

\* C4 as claimed: the operator error exactly for an ordering operator on two
\* Booleans.
C4_OnlyBooleans ==
    Compared =>
        (Failed("operands not supported for operator")
           <=> /\ op \in Ordering
               /\ CoercedKind(operand[1], operand[2]) = "Bool"
               /\ CoercedKind(operand[2], operand[1]) = "Bool")

\* C4 amended: the operator error exactly for an ordering operator on two
\* operands of one kind, after conversion, that is neither String nor
\* Float64 (Bool, and also Invalid, Int, Map); == and != on two Booleans
\* give logical equality and inequality.
C4_OperatorError ==
    Compared =>
        LET ka == CoercedKind(operand[1], operand[2])
            kb == CoercedKind(operand[2], operand[1])
        IN /\ Failed("operands not supported for operator")
                <=> (op \in Ordering /\ ka = kb /\ ka \notin {"String", "Float64"})
           /\ (ka = "Bool" /\ kb = "Bool" /\ op = EQ)
                => err = nil /\ result = (operand[1].dyn.bool = operand[2].dyn.bool)
           /\ (ka = "Bool" /\ kb = "Bool" /\ op = NE)
                => err = nil /\ result = (operand[1].dyn.bool # operand[2].dyn.bool)

\* > on two ints: the operator error, not the unsupported-kind error
C4_Witness ==
    /\ Compared
    /\ operand[1].kind = "Int" /\ operand[2].kind = "Int"
    /\ op = GT
    /\ Failed("operands not supported for operator")

\* the numeric value of a number operand, in halves
Halves(v) == IF v.kind = "Int" THEN 2 * v.dyn.num ELSE v.dyn.num

NumCompare(x, y, operator) ==
    CASE operator = EQ -> x = y
      [] operator = NE -> x # y
      [] operator = GE -> x >= y
      [] operator = GT -> x > y
      [] operator = LE -> x <= y
      [] operator = LT -> x < y

\* C5: an int opposite a float64, on either side, compares without error
\* as the two numbers compare, for each of the six operators.
C5_IntFloat ==
    (/\ Compared
     /\ {operand[1].kind, operand[2].kind} = {"Int", "Float64"})
    => /\ err = nil
       /\ result = NumCompare(Halves(operand[1]), Halves(operand[2]), op)

\* 1.5 < 2 with the float on the left and the int on the right
C5_Witness ==
    /\ Compared
    /\ operand[1] = ValueOf(Float64D(3))
    /\ operand[2] = ValueOf(IntD(2))
    /\ op = LT
    /\ err = nil
    /\ result = TRUE

\* v with an Interface operand replaced by the String of its text
AsString(v) ==
    IF v.kind = "Interface" THEN ValueOf(StringD(Sprintf(v.dyn))) ELSE v

\* C6: an Interface operand is handled exactly as the String of its "%v"
\* text: same outcome as compare on the replaced operands; == against a
\* String is equality of the texts; against a number or a boolean it is the
\* different-kinds error whatever the Interface holds.
C6_InterfaceAsString ==
    (/\ Compared
     /\ (operand[1].kind = "Interface" \/ operand[2].kind = "Interface"))
    => LET a == operand[1]
           b == operand[2]
           r == compare(AsString(a), AsString(b), op)
       IN /\ result = r.res /\ err = r.err
          /\ (AsString(a).kind = "String" /\ AsString(b).kind = "String" /\ op = EQ)
                => err = nil /\ result = (AsString(a).dyn.str = AsString(b).dyn.str)
          /\ (AsString(a).kind = "String" /\ AsString(b).kind = "String" /\ op = NE)
                => err = nil /\ result = (AsString(a).dyn.str # AsString(b).dyn.str)
          /\ ({a.kind, b.kind} \cap {"Float64", "Int", "Bool"} # {})
                => Failed("operands of different kinds can't be compared")

\* an Interface holding the float64 1 equals the String "1"
C6_Witness ==
    /\ Compared
    /\ operand[1] = InterfaceValue(Float64D(2))
    /\ operand[2] = ValueOf(StringD(<<"1">>))
    /\ op = EQ
    /\ err = nil
    /\ result = TRUE

-----------------------------------------------------------------------------
(* Claims about EvaluateCheckHook (Spec) *)

Missing(k) == operand[k] = ZeroValue

\* C3 as claimed: a Missing operand always gives the unsupported-kind error.
C3_MissingUnsupportedKind ==
    (Compared /\ (Missing(1) \/ Missing(2)))
    => Failed("unsupported kind for comparison")

\* C3 amended: a Missing operand always makes the call fail, with the
\* different-kinds error when the other operand is not Missing, and when
\* both are Missing with the unsupported-kind error for == and != and the
\* operator error for an ordering operator.
C3_MissingFails ==
    (Compared /\ (Missing(1) \/ Missing(2)))
    => /\ result = FALSE
       /\ IF ~(Missing(1) /\ Missing(2))
          THEN Failed("operands of different kinds can't be compared")
          ELSE IF op \in {EQ, NE}
          THEN Failed("unsupported kind for comparison")
          ELSE Failed("operands not supported for operator")

\* $.b == $.a where $.b is missing and $.a is a float64
C3_Witness ==
    /\ Compared
    /\ queryCalls = 2
    /\ Missing(1)
    /\ operand[2].kind = "Float64"
    /\ op = EQ
    /\ Failed("operands of different kinds can't be compared")

\* EvaluateCheckHook as a function of the state's inputs, resolving the
\* paths in the given order (<<1, 2>> is the code's order)
EvaluateInOrder(order) ==
    LET p == parseBooleanExpression(booleanExpression)
    IN IF p.err # nil
       THEN [res |-> FALSE,
             err |-> Wrap("failed to parse boolean expression", <<>>, p.err)]
       ELSE LET q == [k \in 1..2 |-> QueryJsonPath(jsonData, p.jsonPaths[k])]
                first == order[1]
                second == order[2]
            IN IF q[first].err # nil
               THEN [res |-> FALSE,
                     err |-> Wrap("failed to get value for", p.jsonPaths[first],
                                  q[first].err)]
               ELSE IF q[second].err # nil
               THEN [res |-> FALSE,
                     err |-> Wrap("failed to get value for", p.jsonPaths[second],
                                  q[second].err)]
               ELSE LET r == compare(q[1].val, q[2].val, p.op)
                    IN [res |-> r.res, err |-> r.err]

BothFail ==
    /\ Len(jsonPaths) = 2
    /\ QueryJsonPath(jsonData, jsonPaths[1]).err # nil
    /\ QueryJsonPath(jsonData, jsonPaths[2]).err # nil

\* C8 as claimed: the outcome is the one of resolving right before left.
C8_OrderIndependent ==
    pc = "done" =>
        /\ result = EvaluateInOrder(<<2, 1>>).res
        /\ err = EvaluateInOrder(<<2, 1>>).err

\* C8 amended: both orders give the same boolean and fail together, and the
\* same error unless both resolutions fail; then each order reports the
\* path it resolves first (the code reports the left path).
C8_OrderUpToFirstError ==
    pc = "done" =>
        LET fwd == EvaluateInOrder(<<1, 2>>)
            rev == EvaluateInOrder(<<2, 1>>)
        IN /\ result = fwd.res /\ err = fwd.err
           /\ result = rev.res
           /\ (err = nil) <=> (rev.err = nil)
           /\ ~BothFail => err = rev.err
           /\ BothFail =>
                 /\ err = Wrap("failed to get value for", jsonPaths[1],
                               QueryJsonPath(jsonData, jsonPaths[1]).err)
                 /\ rev.err = Wrap("failed to get value for", jsonPaths[2],
                                   QueryJsonPath(jsonData, jsonPaths[2]).err)

\* both paths fault and they are different paths
C8_Witness ==
    /\ pc = "done"
    /\ BothFail
    /\ jsonPaths[1] # jsonPaths[2]
    /\ queryCalls = 1
    /\ err # EvaluateInOrder(<<2, 1>>).err

ParseFailed == Failed("failed to parse boolean expression")

ResolveFailed == Failed("failed to get value for")

\* C9: parse, resolve left, resolve right, compare, stopping at the first
\* failure; an error comes with false, success with compare's result.
C9_LinearStages ==
    /\ parseCalls <= 1 /\ queryCalls <= 2 /\ compareCalls <= 1
    /\ pc = "parse" => parseCalls = 0 /\ queryCalls = 0 /\ compareCalls = 0
    /\ queryCalls > 0 => parseCalls = 1 /\ parseBooleanExpression(booleanExpression).err = nil
    /\ pc = "resolve" => queryCalls = i - 1 /\ compareCalls = 0
    /\ pc = "compare" => queryCalls = 2 /\ compareCalls = 0
    /\ compareCalls = 1 =>
          /\ parseCalls = 1 /\ queryCalls = 2
          /\ \A k \in 1..2 :
                LET q == QueryJsonPath(jsonData, jsonPaths[k])
                IN q.err = nil /\ operand[k] = q.val
    /\ pc = "done" =>
          /\ parseCalls = 1
          /\ ParseFailed => queryCalls = 0 /\ compareCalls = 0
          /\ ResolveFailed => compareCalls = 0
          /\ (ResolveFailed /\ QueryJsonPath(jsonData, jsonPaths[1]).err # nil)
                => queryCalls = 1
          /\ err # nil => result = FALSE
          /\ err = nil =>
                /\ compareCalls = 1
                /\ result = compare(operand[1], operand[2], op).res

\* a run through all four stages that returns true
C9_Witness ==
    /\ pc = "done"
    /\ parseCalls = 1 /\ queryCalls = 2 /\ compareCalls = 1
    /\ err = nil
    /\ result = TRUE

====
